---- MODULE Spec2Model ----
(***************************************************************************)
(* Listpack (src/src/lib.rs): a list of byte strings kept in one byte      *)
(* arena `data`, the live region being data[head..tail) with the           *)
(* terminator byte 0xFF at tail-1.  Every entry is varint(len) ++ payload. *)
(*                                                                         *)
(* The arena is a sequence of bytes; Rust's data[i] is At(data, i) and     *)
(* Rust's data[a..b] is Slice(data, a, b).  A usize that the varint codec  *)
(* produces is kept exactly, as its little-endian 7-bit groups; the list   *)
(* operations read it through DecodeLen.                                   *)
(***************************************************************************)
EXTENDS Integers, Sequences, FiniteSets, TLC

VARIABLES
    data,            \* Listpack.data: the arena
    head,            \* Listpack.head
    tail,            \* Listpack.tail
    num_entries,     \* Listpack.num_entries
    overflow_checks, \* the build: TRUE panics on usize overflow, FALSE wraps
    panicked,        \* a call has panicked (index out of range, unwrap, overflow)
    op,              \* the last call: [name, arg]
    ret,             \* what the last call returned: [ok, val]
    abs,             \* the abstract sequence of byte strings under the same calls
    steps,           \* number of mutating calls made so far
    pre,             \* what the list showed before the last mutating call
    twin,            \* a second list, made by Listpack::new() when the first is cleared
    it_active,       \* a ListpackIter borrows the list
    it_pos,          \* ListpackIter.pos
    it_end,          \* ListpackIter.end
    it_items,        \* the items the iterator has yielded so far
    it_done,         \* the iterator has returned None
    it_back          \* the range data[start..stop] next_back last sliced

vars == <<data, head, tail, num_entries, overflow_checks, panicked, op, ret,
          abs, steps, pre, twin, it_active, it_pos, it_end, it_items, it_done,
          it_back>>

listVars == <<data, head, tail, num_entries>>
iterVars == <<it_active, it_pos, it_end, it_items, it_done, it_back>>

----------------------------------------------------------------------------
(* Program constants *)

LP_EOF == 255
VARINT_VALUE_MASK == 127
VARINT_CONT_MASK == 128
VARINT_VALUE_MAX == VARINT_VALUE_MASK
VARINT_CONT_THRESHOLD == VARINT_VALUE_MAX + 1
InitCap == 1024
UsizeBits == 64
GrowthThreshold == 1000

----------------------------------------------------------------------------
(* Bounds of the model *)

MaxOps == 4     \* mutating calls per run
MaxIdx == 2     \* get and remove are called with an index in 0..MaxIdx
MaxPost == 3    \* mutating calls made on a cleared list and its twin
MaxEnds == 5    \* pushes and pops per run of the longer runs at the two ends
MaxInts == 2    \* push_integer calls per run of the integer runs
MaxCont == 12   \* continuation bytes at the head of an input of decode_varint
MaxTail == 9    \* bytes after the tag of an input of decode_integer
MaxGrow == 4    \* pushes and pops per run of the runs that fill the arena

\* The shortest length whose varint starts with the byte 0xFF: 0xFF 0x01.
EofLen == VARINT_CONT_THRESHOLD + VARINT_VALUE_MAX

Fill(n, b) == [i \in 1..n |-> b]

\* The byte strings pushed: the empty string, a short string holding the
\* terminator value, and a string of EofLen bytes (a two-byte length header).
Values == { <<>>, <<LP_EOF, 98>>, Fill(EofLen, 7) }

\* usize values at or above this are tracked by class, not by value; every
\* arena offset of the model is far below it.
ModelRange == 2 ^ 28

----------------------------------------------------------------------------
(* Bytes, slices, options *)

Min(a, b) == IF a < b THEN a ELSE b
Max(a, b) == IF a > b THEN a ELSE b

At(d, i) == d[i + 1]
Slice(d, a, b) == SubSeq(d, a + 1, b)
Zeros(n) == [i \in 1..n |-> 0]

\* d with d[at..at+Len(bytes)) overwritten: copy_from_slice into a range of d.
Put(d, at, bytes) ==
    SubSeq(d, 1, at) \o bytes \o SubSeq(d, at + Len(bytes) + 1, Len(d))

None == [ok |-> FALSE, val |-> <<>>]
Some(v) == [ok |-> TRUE, val |-> v]
Bool(b) == [ok |-> b, val |-> <<>>]

\* The result of a read-only call: a value, or a panic.
Panic == [ok |-> FALSE, val |-> <<>>, panic |-> TRUE]
Value(r) == [ok |-> r.ok, val |-> r.val, panic |-> FALSE]

----------------------------------------------------------------------------
(* Varint codec.  A usize is its 7-bit groups, least significant first.    *)

RECURSIVE EncodeGroups(_)
\* encode_varint, on the groups of `value`: emit the low group with the
\* continuation bit while the rest is not zero.
EncodeGroups(groups) ==
    LET byte == IF groups = <<>> THEN 0 ELSE Head(groups)
        rest == IF groups = <<>> THEN <<>> ELSE Tail(groups)
    IN  IF \A k \in 1..Len(rest) : rest[k] = 0
        THEN <<byte>>
        ELSE <<byte + VARINT_CONT_MASK>> \o EncodeGroups(rest)

RECURSIVE GroupsOf(_)
\* The 7-bit groups of a natural number below ModelRange.
GroupsOf(n) ==
    IF n < VARINT_CONT_THRESHOLD THEN <<n>>
    ELSE <<n % VARINT_CONT_THRESHOLD>> \o GroupsOf(n \div VARINT_CONT_THRESHOLD)

\* The length header push_front and push_back build in len_buf.
LenBytes(n) == EncodeGroups(GroupsOf(n))

RECURSIVE DecodeLoop63(_, _, _, _, _)
\* The loop of decode_varint with a word of 63 bits.
DecodeLoop63(d, from, to, i, acc) ==
    IF from + i >= to
    THEN [ok |-> FALSE, groups |-> <<>>, consumed |-> 0]
    ELSE LET byte == At(d, from + i)
             grp == byte % VARINT_CONT_THRESHOLD
             shift == 7 * i
             kept == grp % (2 ^ Min(7, UsizeBits - 1 - shift))
             acc2 == Append(acc, kept)
         IN  IF byte < VARINT_CONT_MASK
             THEN [ok |-> TRUE, groups |-> acc2, consumed |-> i + 1]
             ELSE IF shift + 7 > UsizeBits - 1
                  THEN [ok |-> FALSE, groups |-> <<>>, consumed |-> 0]
                  ELSE DecodeLoop63(d, from, to, i + 1, acc2)

RECURSIVE DecodeLoopNoBudget(_, _, _, _, _)
\* The loop of decode_varint without the check of shift against the word.
DecodeLoopNoBudget(d, from, to, i, acc) ==
    IF from + i >= to
    THEN [ok |-> FALSE, groups |-> <<>>, consumed |-> 0]
    ELSE LET byte == At(d, from + i)
             grp == byte % VARINT_CONT_THRESHOLD
             shift == 7 * i
             kept == grp % (2 ^ Max(0, Min(7, UsizeBits - shift)))
             acc2 == Append(acc, kept)
         IN  IF byte < VARINT_CONT_MASK
             THEN [ok |-> TRUE, groups |-> acc2, consumed |-> i + 1]
             ELSE DecodeLoopNoBudget(d, from, to, i + 1, acc2)

RECURSIVE DecodeLoop(_, _, _, _, _)
\* The loop of decode_varint over d[from..to), at its i-th byte.
DecodeLoop(d, from, to, i, acc) ==
    IF from + i >= to
    THEN [ok |-> FALSE, groups |-> <<>>, consumed |-> 0]
    ELSE LET byte == At(d, from + i)
             grp == byte % VARINT_CONT_THRESHOLD
             shift == 7 * i
             \* `<< shift` drops the bits that leave the word
             kept == grp % (2 ^ Min(7, UsizeBits - shift))
             acc2 == Append(acc, kept)
         IN  IF byte < VARINT_CONT_MASK
             THEN [ok |-> TRUE, groups |-> acc2, consumed |-> i + 1]
             ELSE IF shift + 7 > UsizeBits
                  THEN [ok |-> FALSE, groups |-> <<>>, consumed |-> 0]
                  ELSE DecodeLoop(d, from, to, i + 1, acc2)

\* decode_varint(&d[from..to])
DecodeVarint(d, from, to) == DecodeLoop(d, from, to, 0, <<>>)

RECURSIVE Trim(_)
\* The groups of a usize without its zero groups at the top; <<0>> is zero.
Trim(g) ==
    IF Len(g) > 1 /\ g[Len(g)] = 0 THEN Trim(SubSeq(g, 1, Len(g) - 1))
    ELSE IF g = <<>> THEN <<0>> ELSE g

\* What decode_varint(b) returns: Some((value, bytes_read)) or None.
VarintResult(r) == IF r.ok THEN Some(<<Trim(r.groups), r.consumed>>) ELSE None
DecodeVarintOf(b) == VarintResult(DecodeVarint(b, 0, Len(b)))

RECURSIVE NatOf(_)
NatOf(groups) ==
    IF groups = <<>> THEN 0
    ELSE Head(groups) + VARINT_CONT_THRESHOLD * NatOf(Tail(groups))

\* How a list operation sees a decoded length: "small" with its value, "neg"
\* when it is 2^64 - len (adding an offset may overflow), "mid" otherwise.
LenClass(r) ==
    LET g == r.groups
        low == NatOf(SubSeq(g, 1, Min(4, Len(g))))
    IN  IF ~r.ok THEN [ok |-> FALSE, cls |-> "small", len |-> 0, consumed |-> 0]
        ELSE IF \A k \in 5..Len(g) : g[k] = 0
        THEN [ok |-> TRUE, cls |-> "small", len |-> low, consumed |-> r.consumed]
        ELSE IF Len(g) = 10 /\ g[10] = 1 /\ \A k \in 5..9 : g[k] = VARINT_VALUE_MAX
        THEN [ok |-> TRUE, cls |-> "neg", len |-> ModelRange - low,
              consumed |-> r.consumed]
        ELSE [ok |-> TRUE, cls |-> "mid", len |-> 0, consumed |-> r.consumed]

\* The length header decoded at d[from..to)
DecodeLen(d, from, to) == LenClass(DecodeVarint(d, from, to))

\* The bytes an entry with payload v takes: `extra` of push_front and push_back.
EntrySize(v) == Len(LenBytes(Len(v))) + Len(v)

\* pos + consumed + len of a scan: the new position, ModelRange when it is
\* past every offset, or -1 when the addition overflows and panics.
Advance(chk, pos, r) ==
    IF r.cls = "small" THEN Min(pos + r.consumed + r.len, ModelRange)
    ELSE IF r.cls = "mid" THEN ModelRange
    ELSE IF pos + r.consumed < r.len THEN ModelRange
    ELSE IF chk THEN -1
    ELSE pos + r.consumed - r.len

\* Whether d[start..start+len] is a range of d; it panics otherwise.
SliceOk(d, start, r) ==
    r.cls = "small" /\ start + r.len <= Len(d)

----------------------------------------------------------------------------
(* What a call leaves behind: the list fields, the returned value, or a    *)
(* panic.                                                                  *)

PanicOut == [panic |-> TRUE, data |-> <<>>, head |-> 0, tail |-> 0, n |-> 0,
             ret |-> None]
Out(d, h, t, n, r) == [panic |-> FALSE, data |-> d, head |-> h, tail |-> t,
                       n |-> n, ret |-> r]

\* grow_and_center(extra) that allocates need bytes, not twice as many.
GrowAndCenterTight(chk, d, h, t, n, extra) ==
    LET used == t - h
        need == used + extra + 1
        slack == Len(d) - t
        growth_factor == IF n > GrowthThreshold THEN 2 ELSE 3
        new_cap == Max(Max(n, 1) * growth_factor, need)
        new_head == (new_cap - used) \div 2
    IN  IF (t < h \/ Len(d) < t) /\ chk THEN PanicOut
        ELSE IF h >= extra /\ (Len(d) < t \/ slack > extra)
        THEN Out(d, h, t, n, None)
        ELSE IF t < h \/ Len(d) < t THEN PanicOut
        ELSE Out(Put(Zeros(new_cap), new_head, Slice(d, h, t)),
                 new_head, new_head + used, n, None)

\* grow_and_center(extra) that copies the live region to the start of the
\* new arena.
GrowAndCenterAtStart(chk, d, h, t, n, extra) ==
    LET used == t - h
        need == used + extra + 1
        slack == Len(d) - t
        growth_factor == IF n > GrowthThreshold THEN 2 ELSE 3
        new_cap == Max(Max(n, 1) * growth_factor, need * 2)
        new_head == extra
    IN  IF (t < h \/ Len(d) < t) /\ chk THEN PanicOut
        ELSE IF h >= extra /\ (Len(d) < t \/ slack > extra)
        THEN Out(d, h, t, n, None)
        ELSE IF t < h \/ Len(d) < t THEN PanicOut
        ELSE Out(Put(Zeros(new_cap), new_head, Slice(d, h, t)),
                 new_head, new_head + used, n, None)

\* grow_and_center(extra).  `tail - head` and `data.len() - tail` overflow
\* when the fields are out of order: a panic with overflow checks, a wrapped
\* (huge) value without.
GrowAndCenter(chk, d, h, t, n, extra) ==
    LET used == t - h
        need == used + extra + 1
        slack == Len(d) - t
        growth_factor == IF n > GrowthThreshold THEN 2 ELSE 3
        new_cap == Max(Max(n, 1) * growth_factor, need * 2)
        new_head == (new_cap - used) \div 2
    IN  IF (t < h \/ Len(d) < t) /\ chk THEN PanicOut
        ELSE IF h >= extra /\ (Len(d) < t \/ slack > extra)
        THEN Out(d, h, t, n, None)
        \* the reallocation copies data[head..tail]
        ELSE IF t < h \/ Len(d) < t THEN PanicOut
        ELSE Out(Put(Zeros(new_cap), new_head, Slice(d, h, t)),
                 new_head, new_head + used, n, None)

\* push_front after grow_and_center has left g: move head back, write the
\* header and the payload.
PushFrontAt(g, len_bytes, value) ==
    LET extra == Len(len_bytes) + Len(value)
        nh == g.head - extra
    IN  IF g.panic THEN PanicOut
        ELSE IF nh < 0 \/ nh + extra > Len(g.data) THEN PanicOut
        ELSE Out(Put(Put(g.data, nh, len_bytes), nh + Len(len_bytes), value),
                 nh, g.tail, g.n + 1, Bool(TRUE))

\* push_front(value)
PushFrontOut(chk, d, h, t, n, value) ==
    PushFrontAt(GrowAndCenter(chk, d, h, t, n, EntrySize(value)),
                LenBytes(Len(value)), value)

\* push_back after grow_and_center has left g: overwrite the terminator with
\* the header, write the payload and a new terminator.
PushBackAt(g, len_bytes, value) ==
    LET term_pos == g.tail - 1
        vstart == term_pos + Len(len_bytes)
        new_term == vstart + Len(value)
    IN  IF g.panic THEN PanicOut
        ELSE IF term_pos < 0 \/ new_term >= Len(g.data) THEN PanicOut
        ELSE Out(Put(Put(Put(g.data, term_pos, len_bytes), vstart, value),
                     new_term, <<LP_EOF>>),
                 g.head, new_term + 1, g.n + 1, Bool(TRUE))

\* push_back(value)
PushBackOut(chk, d, h, t, n, value) ==
    PushBackAt(GrowAndCenter(chk, d, h, t, n, EntrySize(value)),
               LenBytes(Len(value)), value)

\* An i64 is its eight little-endian two's-complement bytes.  It lies in the
\* range of a w-byte integer when the bytes above w repeat the sign of byte w.
FitsWidth(v, w) ==
    \A k \in (w + 1)..8 : v[k] = (IF v[w] >= 128 THEN 255 ELSE 0)

\* push_integer's buffer without the 24-bit arm: 24-bit values take 4 bytes.
EncodeIntegerNo24(v) ==
    IF FitsWidth(v, 1) THEN <<1>> \o SubSeq(v, 1, 1)
    ELSE IF FitsWidth(v, 2) THEN <<2>> \o SubSeq(v, 1, 2)
    ELSE IF FitsWidth(v, 4) THEN <<4>> \o SubSeq(v, 1, 4)
    ELSE <<5>> \o v

\* The buffer push_integer builds: the tag of the first width that fits.
EncodeInteger(v) ==
    IF FitsWidth(v, 1) THEN <<1>> \o SubSeq(v, 1, 1)
    ELSE IF FitsWidth(v, 2) THEN <<2>> \o SubSeq(v, 1, 2)
    ELSE IF FitsWidth(v, 3) THEN <<3>> \o SubSeq(v, 1, 3)
    ELSE IF FitsWidth(v, 4) THEN <<4>> \o SubSeq(v, 1, 4)
    ELSE <<5>> \o v

\* push_integer(value)
PushIntegerOut(chk, d, h, t, n, v) == PushBackOut(chk, d, h, t, n, EncodeInteger(v))

\* `as i64` of a little-endian signed integer of Len(bytes) bytes.
SignExtend(bytes) ==
    bytes \o [i \in 1..(8 - Len(bytes)) |->
                 IF bytes[Len(bytes)] >= 128 THEN 255 ELSE 0]

\* decode_integer that reads a 24-bit value without its sign.
DecodeIntegerNoSign(b) ==
    IF b = <<>> THEN None
    ELSE IF b[1] = 1 THEN IF Len(b) < 2 THEN None ELSE Some(SignExtend(SubSeq(b, 2, 2)))
    ELSE IF b[1] = 2 THEN IF Len(b) < 3 THEN None ELSE Some(SignExtend(SubSeq(b, 2, 3)))
    ELSE IF b[1] = 3
    THEN IF Len(b) < 4 THEN None ELSE Some(SignExtend(SubSeq(b, 2, 4) \o <<0>>))
    ELSE IF b[1] = 4 THEN IF Len(b) < 5 THEN None ELSE Some(SignExtend(SubSeq(b, 2, 5)))
    ELSE IF b[1] = 5 THEN IF Len(b) < 9 THEN None ELSE Some(SubSeq(b, 2, 9))
    ELSE None

\* decode_integer that reads an 8-bit value without the check of its length.
DecodeIntegerNoLen(b) ==
    IF b = <<>> THEN None
    ELSE IF b[1] = 1
    THEN Some(SignExtend(<<IF Len(b) < 2 THEN 0 ELSE b[2]>>))
    ELSE IF b[1] = 2 THEN IF Len(b) < 3 THEN None ELSE Some(SignExtend(SubSeq(b, 2, 3)))
    ELSE IF b[1] = 3
    THEN IF Len(b) < 4 THEN None
         ELSE Some(SignExtend(SubSeq(b, 2, 4) \o <<IF b[4] >= 128 THEN 255 ELSE 0>>))
    ELSE IF b[1] = 4 THEN IF Len(b) < 5 THEN None ELSE Some(SignExtend(SubSeq(b, 2, 5)))
    ELSE IF b[1] = 5 THEN IF Len(b) < 9 THEN None ELSE Some(SubSeq(b, 2, 9))
    ELSE None

\* decode_integer(data): the i64 as its eight bytes, or None.  A 24-bit value
\* is widened to four bytes by its sign before it is read as an i32.
DecodeInteger(b) ==
    IF b = <<>> THEN None
    ELSE IF b[1] = 1 THEN IF Len(b) < 2 THEN None ELSE Some(SignExtend(SubSeq(b, 2, 2)))
    ELSE IF b[1] = 2 THEN IF Len(b) < 3 THEN None ELSE Some(SignExtend(SubSeq(b, 2, 3)))
    ELSE IF b[1] = 3
    THEN IF Len(b) < 4 THEN None
         ELSE Some(SignExtend(SubSeq(b, 2, 4) \o <<IF b[4] >= 128 THEN 255 ELSE 0>>))
    ELSE IF b[1] = 4 THEN IF Len(b) < 5 THEN None ELSE Some(SignExtend(SubSeq(b, 2, 5)))
    ELSE IF b[1] = 5 THEN IF Len(b) < 9 THEN None ELSE Some(SubSeq(b, 2, 9))
    ELSE None

\* pop_front with the header at head decoded as r: return the payload and
\* move head past the entry.
PopFrontEntry(d, h, t, n, r) ==
    LET start == h + r.consumed
    IN  IF ~r.ok THEN Out(d, h, t, n, None)
        ELSE IF ~SliceOk(d, start, r) THEN PanicOut
        ELSE Out(d, start + r.len, t, n - 1, Some(Slice(d, start, start + r.len)))

\* pop_front()
PopFrontOut(chk, d, h, t, n) ==
    IF n = 0 THEN Out(d, h, t, n, None)
    ELSE IF h > Len(d) THEN PanicOut
    ELSE PopFrontEntry(d, h, t, n, DecodeLen(d, h, Len(d)))

RECURSIVE PopBackScan(_, _, _, _, _, _)
RECURSIVE PopBackEntry(_, _, _, _, _)

\* The loop of pop_back: where the last entry starts and how long its header is.
PopBackScan(chk, d, t, pos, last_pos, last_header) ==
    IF ~(pos < t)
    THEN [st |-> "found", last_pos |-> last_pos, last_header |-> last_header]
    ELSE IF pos >= Len(d)
    THEN [st |-> "panic", last_pos |-> 0, last_header |-> 0]
    ELSE IF At(d, pos) = LP_EOF
    THEN [st |-> "found", last_pos |-> last_pos, last_header |-> last_header]
    ELSE PopBackEntry(chk, d, t, pos, DecodeLen(d, pos, Len(d)))

\* The body of that loop at an entry whose header decodes as r.
PopBackEntry(chk, d, t, pos, r) ==
    LET np == Advance(chk, pos, r)
    IN  IF ~r.ok THEN [st |-> "none", last_pos |-> 0, last_header |-> 0]
        ELSE IF np < 0 THEN [st |-> "panic", last_pos |-> 0, last_header |-> 0]
        ELSE PopBackScan(chk, d, t, np, pos, r.consumed)

\* The tail of pop_back and remove: copy_within(end..tail, start), shrink
\* tail, rewrite the terminator.
CutOut(d, h, t, n, start, end, r) ==
    LET nt == t - (end - start)
        moved == Put(d, start, Slice(d, end, t))
    IN  IF end > t \/ t > Len(d) \/ start + (t - end) > Len(d) THEN PanicOut
        ELSE IF nt > 0
        THEN IF nt > Len(d) THEN PanicOut
             ELSE Out(Put(moved, nt - 1, <<LP_EOF>>), h, nt, n - 1, r)
        ELSE Out(moved, h, nt, n - 1, r)

\* pop_back with the last entry at last_pos, its header decoded again as r:
\* return the payload and cut the entry out.
PopBackCut(d, h, t, n, last_pos, last_header, r) ==
    LET start == last_pos + last_header
        end == start + r.len
    IN  IF ~r.ok THEN PanicOut
        ELSE IF ~SliceOk(d, start, r) THEN PanicOut
        ELSE CutOut(d, h, t, n, last_pos, end, Some(Slice(d, start, end)))

\* pop_back after its loop has ended with s.
PopBackLast(d, h, t, n, s) ==
    IF s.st = "panic" THEN PanicOut
    ELSE IF s.st = "none" THEN Out(d, h, t, n, None)
    ELSE IF s.last_pos > Len(d) THEN PanicOut
    ELSE PopBackCut(d, h, t, n, s.last_pos, s.last_header,
                    DecodeLen(d, s.last_pos, Len(d)))

\* pop_back()
PopBackOut(chk, d, h, t, n) ==
    IF n = 0 THEN Out(d, h, t, n, None)
    ELSE PopBackLast(d, h, t, n, PopBackScan(chk, d, t, h, h, 0))

RECURSIVE RemoveScan(_, _, _, _, _, _, _, _)
RECURSIVE RemoveEntry(_, _, _, _, _, _, _, _, _)

\* The loop of remove(index), at offset i with curr entries passed.
RemoveScan(chk, d, h, t, n, i, curr, index) ==
    IF ~(i < t) THEN Out(d, h, t, n, Bool(FALSE))
    ELSE IF i >= Len(d) THEN PanicOut
    ELSE IF At(d, i) = LP_EOF THEN Out(d, h, t, n, Bool(FALSE))
    ELSE RemoveEntry(chk, d, h, t, n, i, curr, index, DecodeLen(d, i, Len(d)))

\* The body of that loop at an entry whose header decodes as r.
RemoveEntry(chk, d, h, t, n, i, curr, index, r) ==
    LET end == Advance(chk, i, r)
    IN  IF ~r.ok THEN Out(d, h, t, n, Bool(FALSE))
        ELSE IF end < 0 THEN PanicOut
        ELSE IF curr = index
        THEN CutOut(d, h, t, n, i, end, Bool(TRUE))
        ELSE RemoveScan(chk, d, h, t, n, end, curr + 1, index)

\* remove(index) with the range check off by one: index = len() is scanned.
RemoveOutOffByOne(chk, d, h, t, n, index) ==
    IF index > n THEN Out(d, h, t, n, Bool(FALSE))
    ELSE RemoveScan(chk, d, h, t, n, h, 0, index)

\* remove(index)
RemoveOut(chk, d, h, t, n, index) ==
    IF index >= n THEN Out(d, h, t, n, Bool(FALSE))
    ELSE RemoveScan(chk, d, h, t, n, h, 0, index)

\* clear()
\* clear() that puts head where Listpack::new() does.
ClearOutAsNew(d, h, t, n) ==
    LET nh == InitCap \div 2
    IN  IF nh >= Len(d) THEN PanicOut
        ELSE Out(Put(d, nh, <<LP_EOF>>), nh, nh + 1, 0, None)

ClearOut(d, h, t, n) ==
    LET cap == Len(d)
        nh == cap \div 2
    IN  IF nh >= cap THEN PanicOut
        ELSE Out(Put(d, nh, <<LP_EOF>>), nh, nh + 1, 0, None)

RECURSIVE GetScan(_, _, _, _, _, _)
RECURSIVE GetEntry(_, _, _, _, _, _, _)

\* The loop of get(index), at offset pos with curr entries passed.
GetScan(chk, d, t, pos, curr, index) ==
    IF ~(pos < t) THEN Value(None)
    ELSE IF pos >= Len(d) THEN Panic
    ELSE IF At(d, pos) = LP_EOF THEN Value(None)
    ELSE GetEntry(chk, d, t, pos, curr, index, DecodeLen(d, pos, Len(d)))

\* The body of that loop at an entry whose header decodes as r.
GetEntry(chk, d, t, pos, curr, index, r) ==
    LET np == Advance(chk, pos, r)
    IN  IF ~r.ok THEN Value(None)
        ELSE IF curr = index
        THEN IF SliceOk(d, pos + r.consumed, r)
             THEN Value(Some(Slice(d, pos + r.consumed, pos + r.consumed + r.len)))
             ELSE Panic
        ELSE IF np < 0 THEN Panic
        ELSE GetScan(chk, d, t, np, curr + 1, index)

\* get(index) with the range check off by one: index = len() is scanned.
GetOfOffByOne(chk, d, h, t, n, index) ==
    IF index > n THEN Value(None)
    ELSE GetScan(chk, d, t, h, 0, index)

\* get(index)
GetOf(chk, d, h, t, n, index) ==
    IF index >= n THEN Value(None)
    ELSE GetScan(chk, d, t, h, 0, index)

\* ListpackIter::next() at an entry whose header decodes as r.
IterNextEntry(d, pos, r) ==
    LET start == pos + r.consumed
    IN  IF ~r.ok THEN [panic |-> FALSE, item |-> None, pos |-> pos]
        ELSE IF ~SliceOk(d, start, r) THEN [panic |-> TRUE, item |-> None, pos |-> pos]
        ELSE [panic |-> FALSE, item |-> Some(Slice(d, start, start + r.len)),
              pos |-> start + r.len]

\* ListpackIter::next() at (pos, end): the item and the new pos.
IterNextOf(d, pos, end) ==
    IF pos >= end THEN [panic |-> FALSE, item |-> None, pos |-> pos]
    ELSE IF pos >= Len(d) THEN [panic |-> TRUE, item |-> None, pos |-> pos]
    ELSE IF At(d, pos) = LP_EOF THEN [panic |-> FALSE, item |-> None, pos |-> pos]
    ELSE IterNextEntry(d, pos, DecodeLen(d, pos, Len(d)))

\* A usize result: n, or 2^64 - n when a subtraction has wrapped.
Usize(n) == [wrap |-> FALSE, n |-> n]
Wrapped(n) == [wrap |-> TRUE, n |-> n]

\* ListpackIter::size_hint() at (pos, end): `end - pos` twice.  The
\* subtraction panics under overflow checks and wraps without them.
SizeHintOf(chk, pos, end) ==
    IF end >= pos
    THEN [panic |-> FALSE, hint |-> Some(<<Usize(end - pos), Some(Usize(end - pos))>>)]
    ELSE IF chk THEN [panic |-> TRUE, hint |-> None]
    ELSE [panic |-> FALSE,
          hint |-> Some(<<Wrapped(pos - end), Some(Wrapped(pos - end))>>)]

RECURSIVE BackScan(_, _)
\* The loop of next_back: step back over bytes with the continuation bit.
BackScan(d, i) ==
    IF i > 0 /\ At(d, i) >= VARINT_CONT_MASK THEN BackScan(d, i - 1) ELSE i

BackPanic == [panic |-> TRUE, item |-> None, end |-> 0, start |-> 0, stop |-> 0]
BackNone(end) == [panic |-> FALSE, item |-> None, end |-> end, start |-> 0, stop |-> 0]

\* next_back with the header taken at i and decoded as r.
IterBackItem(d, end, i, r) ==
    IF ~r.ok THEN BackNone(end)
    ELSE IF ~SliceOk(d, i + r.consumed, r) THEN BackPanic
    ELSE [panic |-> FALSE,
          item |-> Some(Slice(d, i + r.consumed, i + r.consumed + r.len)),
          end |-> i, start |-> i + r.consumed, stop |-> i + r.consumed + r.len]

\* next_back with its loop ended at i: decode_varint(&data[i..end]).
IterBackEntry(d, end, i) == IterBackItem(d, end, i, DecodeLen(d, i, end))

\* ListpackIter::next_back() at (pos, end): the item, the new end and the
\* range sliced.  `end - 2` below zero, and an index past the arena, panic.
IterNextBackOf(d, pos, end) ==
    IF pos >= end THEN BackNone(end)
    ELSE IF end < 2 \/ end > Len(d) THEN BackPanic
    ELSE IterBackEntry(d, end, BackScan(d, end - 2))

----------------------------------------------------------------------------
(* The state machine *)

\* The i64 values pushed with push_integer: 300.
Ints == { <<44, 1, 0, 0, 0, 0, 0, 0>> }

NoOp == [name |-> "new", val |-> <<>>, idx |-> 0]

\* The outcome of the mutating call `name` on the list (d, h, t, n).
OpOut(name, chk, d, h, t, n, val, idx) ==
    CASE name = "push_front" -> PushFrontOut(chk, d, h, t, n, val)
      [] name = "push_back" -> PushBackOut(chk, d, h, t, n, val)
      [] name = "push_integer" -> PushIntegerOut(chk, d, h, t, n, val)
      [] name = "pop_front" -> PopFrontOut(chk, d, h, t, n)
      [] name = "pop_back" -> PopBackOut(chk, d, h, t, n)
      [] name = "remove" -> RemoveOut(chk, d, h, t, n, idx)
      [] name = "clear" -> ClearOut(d, h, t, n)

NoTwin == [on |-> FALSE, data |-> <<>>, head |-> 0, tail |-> 0, n |-> 0,
           panicked |-> FALSE, ret |-> None, steps |-> 0]

\* Listpack::new()
NewTwin == [on |-> TRUE, data |-> Put(Zeros(InitCap), InitCap \div 2, <<LP_EOF>>),
            head |-> InitCap \div 2, tail |-> InitCap \div 2 + 1, n |-> 0,
            panicked |-> FALSE, ret |-> None, steps |-> 0]

\* The twin after the same call.
TwinWith(out) ==
    IF twin.panicked THEN [twin EXCEPT !.steps = @ + 1]
    ELSE IF out.panic
    THEN [twin EXCEPT !.panicked = TRUE, !.ret = None, !.steps = @ + 1]
    ELSE [on |-> TRUE, data |-> out.data, head |-> out.head, tail |-> out.tail,
          n |-> out.n, panicked |-> FALSE, ret |-> out.ret,
          steps |-> twin.steps + 1]

TwinAfter(name, val, idx) ==
    TwinWith(OpOut(name, overflow_checks, twin.data, twin.head, twin.tail,
                   twin.n, val, idx))

\* get(index) on the current list
Get(i) == GetOf(overflow_checks, data, head, tail, num_entries, i)

\* What a caller can see of the list, and its fields: taken before each
\* mutating call, for the claims that compare a call's result with it.
Snapshot ==
    [n |-> num_entries, head |-> head, tail |-> tail, cap |-> Len(data),
     gets |-> [k \in 0..MaxOps |-> Get(k)], abs |-> abs]

\* No payload sliced yet.
NoRange == [start |-> 0, stop |-> 0]

\* Listpack::new(), under either build.
Init ==
    /\ data = Put(Zeros(InitCap), InitCap \div 2, <<LP_EOF>>)
    /\ head = InitCap \div 2
    /\ tail = InitCap \div 2 + 1
    /\ num_entries = 0
    /\ overflow_checks \in BOOLEAN
    /\ panicked = FALSE
    /\ op = NoOp
    /\ ret = None
    /\ abs = <<>>
    /\ steps = 0
    /\ pre = Snapshot
    /\ twin = NoTwin
    /\ it_active = FALSE
    /\ it_pos = 0
    /\ it_end = 0
    /\ it_items = <<>>
    /\ it_done = FALSE
    /\ it_back = NoRange

\* A &mut self call may start: no panic so far, no iterator borrowing the list.
CanMutate ==
    /\ ~panicked
    /\ ~it_active
    /\ IF twin.on THEN twin.steps < MaxPost ELSE steps < MaxOps

\* The call `name` ends with outcome `out`; the abstract sequence becomes newAbs.
Apply(name, val, idx, out, newAbs) ==
    /\ op' = [name |-> name, val |-> val, idx |-> idx]
    /\ steps' = steps + 1
    /\ abs' = newAbs
    /\ pre' = Snapshot
    /\ twin' = IF twin.on THEN TwinAfter(name, val, idx) ELSE twin
    /\ UNCHANGED <<overflow_checks, iterVars>>
    /\ IF out.panic
       THEN /\ panicked' = TRUE
            /\ ret' = None
            /\ UNCHANGED listVars
       ELSE /\ panicked' = FALSE
            /\ ret' = out.ret
            /\ data' = out.data
            /\ head' = out.head
            /\ tail' = out.tail
            /\ num_entries' = out.n

AbsRemove(s, i) ==
    IF i < Len(s) THEN SubSeq(s, 1, i) \o SubSeq(s, i + 2, Len(s)) ELSE s

PushFrontCall(v) ==
    Apply("push_front", v, 0,
          PushFrontOut(overflow_checks, data, head, tail, num_entries, v),
          <<v>> \o abs)

PushFront(v) == CanMutate /\ PushFrontCall(v)

PushBackCall(v) ==
    Apply("push_back", v, 0,
          PushBackOut(overflow_checks, data, head, tail, num_entries, v),
          Append(abs, v))

PushBack(v) == CanMutate /\ PushBackCall(v)

PushIntegerCall(v) ==
    Apply("push_integer", v, 0,
          PushIntegerOut(overflow_checks, data, head, tail, num_entries, v),
          Append(abs, EncodeInteger(v)))

PushInteger(v) == CanMutate /\ PushIntegerCall(v)

PopFrontCall ==
    Apply("pop_front", <<>>, 0,
          PopFrontOut(overflow_checks, data, head, tail, num_entries),
          IF abs = <<>> THEN abs ELSE Tail(abs))

PopFront == CanMutate /\ PopFrontCall

PopBackCall ==
    Apply("pop_back", <<>>, 0,
          PopBackOut(overflow_checks, data, head, tail, num_entries),
          IF abs = <<>> THEN abs ELSE SubSeq(abs, 1, Len(abs) - 1))

PopBack == CanMutate /\ PopBackCall

Remove(i) ==
    /\ CanMutate
    /\ Apply("remove", <<>>, i,
             RemoveOut(overflow_checks, data, head, tail, num_entries, i),
             AbsRemove(abs, i))

Clear ==
    /\ CanMutate
    /\ Apply("clear", <<>>, 0, ClearOut(data, head, tail, num_entries), <<>>)

\* get(index), called by the user
GetCall(i) ==
    /\ ~panicked
    /\ \E r \in {Get(i)} :
           /\ panicked' = r.panic
           /\ ret' = [ok |-> r.ok, val |-> r.val]
    /\ op' = [name |-> "get", val |-> <<>>, idx |-> i]
    /\ UNCHANGED <<listVars, overflow_checks, abs, steps, pre, twin, iterVars>>

\* iter()
Iter ==
    /\ ~panicked
    /\ ~it_active
    /\ it_active' = TRUE
    /\ it_pos' = head
    /\ it_end' = tail
    /\ it_items' = <<>>
    /\ it_done' = FALSE
    /\ it_back' = NoRange
    /\ op' = [name |-> "iter", val |-> <<>>, idx |-> 0]
    /\ ret' = None
    /\ UNCHANGED <<listVars, overflow_checks, panicked, abs, steps, pre, twin>>

\* ListpackIter::next()
IterNext ==
    /\ ~panicked
    /\ it_active
    /\ \E r \in {IterNextOf(data, it_pos, it_end)} :
           /\ panicked' = r.panic
           /\ it_pos' = r.pos
           /\ ret' = r.item
           /\ it_items' = IF r.item.ok THEN Append(it_items, r.item.val) ELSE it_items
           /\ it_done' = (it_done \/ (~r.panic /\ ~r.item.ok))
    /\ op' = [name |-> "next", val |-> <<>>, idx |-> 0]
    /\ UNCHANGED <<listVars, overflow_checks, abs, steps, pre, twin, it_active, it_end,
                   it_back>>

\* ListpackIter::next_back()
IterNextBack ==
    /\ ~panicked
    /\ it_active
    /\ Len(it_items) <= MaxOps
    /\ \E r \in {IterNextBackOf(data, it_pos, it_end)} :
           /\ panicked' = r.panic
           /\ it_end' = IF r.panic THEN it_end ELSE r.end
           /\ ret' = r.item
           /\ it_items' = IF r.item.ok THEN Append(it_items, r.item.val) ELSE it_items
           /\ it_done' = (it_done \/ (~r.panic /\ ~r.item.ok))
           /\ it_back' = [start |-> r.start, stop |-> r.stop]
    /\ op' = [name |-> "next_back", val |-> <<>>, idx |-> 0]
    /\ UNCHANGED <<listVars, overflow_checks, abs, steps, pre, twin, it_active, it_pos>>

\* ListpackIter::size_hint()
IterSizeHint ==
    /\ ~panicked
    /\ it_active
    /\ \E r \in {SizeHintOf(overflow_checks, it_pos, it_end)} :
           /\ panicked' = r.panic
           /\ ret' = r.hint
    /\ op' = [name |-> "size_hint", val |-> <<>>, idx |-> 0]
    /\ UNCHANGED <<listVars, overflow_checks, abs, steps, pre, twin, iterVars>>

\* The iterator goes out of scope and the borrow ends.
IterDrop ==
    /\ ~panicked
    /\ it_active
    /\ it_active' = FALSE
    /\ it_pos' = 0
    /\ it_end' = 0
    /\ it_items' = <<>>
    /\ it_done' = FALSE
    /\ it_back' = NoRange
    /\ op' = [name |-> "drop", val |-> <<>>, idx |-> 0]
    /\ ret' = None
    /\ UNCHANGED <<listVars, overflow_checks, panicked, abs, steps, pre, twin>>

Next ==
    \/ \E v \in Values : PushFront(v)
    \/ \E v \in Values : PushBack(v)
    \/ \E v \in Ints : PushInteger(v)
    \/ PopFront
    \/ PopBack
    \/ \E i \in 0..MaxIdx : Remove(i)
    \/ Clear

\* Every mutating call, in any order.
Spec == Init /\ [][Next]_vars

NextBack == \E v \in Values : PushBack(v)

\* Only push_back.
SpecBack == Init /\ [][NextBack]_vars

NextFront == \E v \in Values : PushFront(v)

\* Only push_front.
SpecFront == Init /\ [][NextFront]_vars

\* clear() on the list, and a twin made by Listpack::new() beside it.
ClearFork ==
    /\ ~panicked
    /\ ~it_active
    /\ ~twin.on
    /\ op' = [name |-> "clear", val |-> <<>>, idx |-> 0]
    /\ \E out \in {ClearOut(data, head, tail, num_entries)} :
           /\ ~out.panic
           /\ data' = out.data
           /\ head' = out.head
           /\ tail' = out.tail
           /\ num_entries' = out.n
           /\ ret' = out.ret
    /\ abs' = <<>>
    /\ pre' = Snapshot
    /\ twin' = NewTwin
    /\ UNCHANGED <<overflow_checks, panicked, steps, iterVars>>

NextClear ==
    \/ \E v \in Values : PushBack(v)
    \/ twin.on /\ PopFront
    \/ twin.on /\ PopBack
    \/ ClearFork

\* A list grown with push_back and then cleared, driven beside a new list.
SpecClear == Init /\ [][NextClear]_vars

NextGet ==
    \/ Next
    \/ \E i \in 0..MaxIdx : GetCall(i)

\* The mutating calls and get.
SpecGet == Init /\ [][NextGet]_vars

NextIter ==
    \/ Next
    \/ Iter
    \/ IterNext
    \/ IterDrop

\* The mutating calls and forward iteration.
SpecIter == Init /\ [][NextIter]_vars

\* The byte strings of the longer runs: the empty one and the EofLen-byte one.
EndValues == { <<>>, Fill(EofLen, 7) }

\* A push or a pop of a longer run may start.
CanPushPop ==
    /\ ~panicked
    /\ ~it_active
    /\ steps < MaxEnds

PushFrontEnd(v) == CanPushPop /\ PushFrontCall(v)
PushBackEnd(v) == CanPushPop /\ PushBackCall(v)
PopFrontEnd == CanPushPop /\ PopFrontCall
\* pop_back scans from head, so it comes among the first MaxOps calls.
PopBackEnd == CanPushPop /\ steps < MaxOps /\ PopBackCall

NextEnds ==
    \/ \E v \in EndValues : PushFrontEnd(v)
    \/ \E v \in EndValues : PushBackEnd(v)
    \/ PopFrontEnd
    \/ PopBackEnd

\* Longer runs of pushes and pops at the two ends.
SpecEnds == Init /\ [][NextEnds]_vars

\* The width-w patterns at the ends of a class: 7F after FFs, 80 after 00s.
MaxPat(w) == [i \in 1..w |-> IF i = w THEN 127 ELSE 255]
MinPat(w) == [i \in 1..w |-> IF i = w THEN 128 ELSE 0]

\* The pattern widened to eight bytes with the byte fill.
Widen(pat, fill) == pat \o [i \in 1..(8 - Len(pat)) |-> fill]

\* The i64 values of the integer runs: for each width 1, 2, 3, 4 the greatest
\* and the least value of the class and the two values next to them outside
\* it, then i64::MAX and i64::MIN, 0 and -1.
IntValues ==
    { Widen(MaxPat(w), 0) : w \in 1..4 } \cup { Widen(MinPat(w), 255) : w \in 1..4 }
    \cup { Widen(MinPat(w), 0) : w \in 1..4 } \cup { Widen(MaxPat(w), 255) : w \in 1..4 }
    \cup { MaxPat(8), MinPat(8), Widen(<<0>>, 0), Widen(<<255>>, 255) }

PushIntegerRun(v) ==
    /\ ~panicked
    /\ ~it_active
    /\ steps < MaxInts
    /\ PushIntegerCall(v)

NextInts == \E v \in IntValues : PushIntegerRun(v)

\* Only push_integer.
SpecInts == Init /\ [][NextInts]_vars

\* The 7-bit groups a usize has.
WordGroups == (UsizeBits + 6) \div 7

\* The usize values of the codec runs, as groups: every length up to the
\* word's, the groups below the top all 0, all 64 or all 127 under a low
\* group of 0, 1 or 127, the top group 1 or 127 (1 alone at the tenth, which
\* holds one bit).  0, 1, 127, 128, 16384, 2^63 and usize::MAX are among them.
VarintValues ==
    { <<lo>> : lo \in {0, 1, 127} }
    \cup { [i \in 1..n |-> IF i = n THEN top ELSE IF i = 1 THEN lo ELSE mid] :
             n \in 2..WordGroups, lo \in {0, 1, 127}, mid \in {0, 64, 127},
             top \in {1} }
    \cup { [i \in 1..n |-> IF i = n THEN top ELSE IF i = 1 THEN lo ELSE mid] :
             n \in 2..(WordGroups - 1), lo \in {0, 1, 127}, mid \in {0, 64, 127},
             top \in {127} }

\* The inputs of decode_varint in the codec runs: up to MaxCont bytes with
\* the continuation bit, alone, before a byte without it, and before such a
\* byte and one more.
ContRun(k, c) == [i \in 1..k |-> c]
VarintInputs ==
    { ContRun(k, c) : k \in 0..MaxCont, c \in {128, 255} }
    \cup { ContRun(k, c) \o <<t>> :
             k \in 0..MaxCont, c \in {128, 255}, t \in {0, 1, 127} }
    \cup { ContRun(k, c) \o <<t, 255>> :
             k \in 0..MaxCont, c \in {128, 255}, t \in {0, 1, 127} }

\* The inputs of decode_integer in the codec runs: the empty payload and a
\* tag, valid or not, before up to MaxTail equal bytes.
IntegerInputs ==
    { <<>> }
    \cup { <<tag>> \o ContRun(k, c) :
             tag \in {0, 1, 2, 3, 4, 5, 6, LP_EOF}, k \in 0..MaxTail,
             c \in {0, 127, 255} }

\* A call of a function that takes no list: only the call and its result
\* are recorded.
PureCall(name, val, r) ==
    /\ op' = [name |-> name, val |-> val, idx |-> 0]
    /\ ret' = r
    /\ UNCHANGED <<listVars, overflow_checks, panicked, abs, steps, pre, twin,
                   iterVars>>

\* No call has panicked and no iterator borrows the list.
CanCall == ~panicked /\ ~it_active

\* Listpack::encode_varint(value)
EncodeVarintCall(g) ==
    CanCall /\ PureCall("encode_varint", g, Some(EncodeGroups(g)))

\* Listpack::decode_varint(data)
DecodeVarintCall(b) ==
    CanCall /\ PureCall("decode_varint", b, DecodeVarintOf(b))

\* lp.decode_integer(data)
DecodeIntegerCall(b) ==
    CanCall /\ PureCall("decode_integer", b, DecodeInteger(b))

NextCodec ==
    \/ \E g \in VarintValues : EncodeVarintCall(g)
    \/ \E b \in VarintInputs : DecodeVarintCall(b)
    \/ \E b \in IntegerInputs : DecodeIntegerCall(b)

\* The three codec functions on a new list.
SpecCodec == Init /\ [][NextCodec]_vars

\* The payload length whose entry (a two-byte header and the payload) takes
\* exactly the bytes a new list has after tail.
SlackLen == InitCap - (InitCap \div 2 + 1) - 2

\* The byte strings of the runs that fill the arena.
GrowValues == { <<>>, Fill(SlackLen, 7) }

\* A push or a pop of a run that fills the arena may start.
CanGrow ==
    /\ ~panicked
    /\ ~it_active
    /\ steps < MaxGrow

PushFrontGrow(v) == CanGrow /\ PushFrontCall(v)
PushBackGrow(v) == CanGrow /\ PushBackCall(v)
PopFrontGrow == CanGrow /\ PopFrontCall
PopBackGrow == CanGrow /\ PopBackCall

NextGrow ==
    \/ \E v \in GrowValues : PushFrontGrow(v)
    \/ \E v \in GrowValues : PushBackGrow(v)
    \/ PopFrontGrow
    \/ PopBackGrow

\* Pushes that use up the slack of the arena, and pops.
SpecGrow == Init /\ [][NextGrow]_vars

NextHint ==
    \/ Next
    \/ Iter
    \/ IterNext
    \/ IterSizeHint
    \/ IterDrop

\* The mutating calls, forward iteration and size_hint.
SpecHint == Init /\ [][NextHint]_vars

NextIterBack ==
    \/ Next
    \/ Iter
    \/ IterNextBack
    \/ IterDrop

\* The mutating calls and reverse iteration.
SpecIterBack == Init /\ [][NextIterBack]_vars

----------------------------------------------------------------------------
(* Claims *)

\* C1: after pushing v1..vn with push_back onto a new list (abs is v1..vn
\* under SpecBack), no call has panicked, len() = n and get(i-1) = vi for
\* every i in 1..n.
C1_PushBackThenGet ==
    /\ ~panicked
    /\ num_entries = Len(abs)
    /\ \A i \in 1..Len(abs) : Get(i - 1) = Value(Some(abs[i]))

\* C2: after pushing v1..vn with push_front onto a new list (abs is vn..v1
\* under SpecFront), len() = n and get(k) = v(n-k) for every k in 0..n-1.
C2_PushFrontMirrors ==
    /\ ~panicked
    /\ Len(abs) = num_entries
    /\ \A k \in 0..(num_entries - 1) : Get(k) = Value(Some(abs[k + 1]))

\* C3: after every call, len() and every get(i) agree with the abstract
\* sequence, no call has panicked, and a pop has returned what the abstract
\* sequence returns.
C3_RefinesSequence ==
    /\ ~panicked
    /\ num_entries = Len(abs)
    /\ \A i \in 0..(Len(abs) - 1) : Get(i) = Value(Some(abs[i + 1]))
    /\ op.name = "pop_front" =>
          ret = (IF pre.abs = <<>> THEN None ELSE Some(pre.abs[1]))
    /\ op.name = "pop_back" =>
          ret = (IF pre.abs = <<>> THEN None ELSE Some(pre.abs[Len(pre.abs)]))

\* C4: remove(i) with i < len() returns true, len() drops by one, and then
\* get(k) is the former get(k) for k < i and the former get(k+1) for k >= i.
C4_RemoveValid ==
    (op.name = "remove" /\ op.idx < pre.n) =>
        /\ ~panicked
        /\ ret = Bool(TRUE)
        /\ num_entries = pre.n - 1
        /\ \A k \in 0..(pre.n - 2) :
              Get(k) = (IF k < op.idx THEN pre.gets[k] ELSE pre.gets[k + 1])

\* C5: remove(i) with i >= len() returns false, does not panic, and leaves
\* len(), head, tail and every get(k) as they were.
C5_RemoveOutOfRange ==
    (op.name = "remove" /\ op.idx >= pre.n) =>
        /\ ~panicked
        /\ ret = Bool(FALSE)
        /\ num_entries = pre.n
        /\ head = pre.head
        /\ tail = pre.tail
        /\ \A k \in 0..MaxOps : Get(k) = pre.gets[k]

\* remove was called out of range on a list that holds entries.
C5_Witness ==
    /\ op.name = "remove"
    /\ op.idx >= pre.n
    /\ pre.n > 0
    /\ pre.gets[0].ok
    /\ ret = Bool(FALSE)

\* C6: get(index) with index >= len() returns None and does not panic, on
\* the empty list as on any other: as the result of a call, and for every
\* index from len() on in every state.
C6_GetOutOfRange ==
    /\ (op.name = "get" /\ op.idx >= num_entries) => (~panicked /\ ret = None)
    /\ \A i \in num_entries..(num_entries + MaxIdx) : Get(i) = Value(None)

\* get was called out of range on a list whose get(0) is an entry.
C6_Witness ==
    /\ op.name = "get"
    /\ op.idx >= num_entries
    /\ num_entries > 0
    /\ Get(0).ok
    /\ ret = None

\* C7: pop_back() on a list with len() > 0 returns the value get(len()-1)
\* held, len() drops by one and get(k) for k < len()-1 is unchanged; on an
\* empty list it returns None and changes nothing.
C7_PopBackLast ==
    op.name = "pop_back" =>
        IF pre.n > 0
        THEN /\ ~panicked
             /\ pre.gets[pre.n - 1].ok
             /\ ret = Some(pre.gets[pre.n - 1].val)
             /\ num_entries = pre.n - 1
             /\ \A k \in 0..(pre.n - 2) : Get(k) = pre.gets[k]
        ELSE /\ ~panicked
             /\ ret = None
             /\ num_entries = 0 /\ head = pre.head /\ tail = pre.tail

\* C8: pop_front() on a list with len() > 0 returns the value get(0) held,
\* len() drops by one, head advances by the serialized size of that entry
\* and get(k) becomes the former get(k+1); on an empty list it returns None
\* and changes nothing.
C8_PopFrontFirst ==
    op.name = "pop_front" =>
        IF pre.n > 0
        THEN /\ ~panicked
             /\ pre.gets[0].ok
             /\ ret = Some(pre.gets[0].val)
             /\ num_entries = pre.n - 1
             /\ head = pre.head + EntrySize(pre.gets[0].val)
             /\ \A k \in 0..(pre.n - 2) : Get(k) = pre.gets[k + 1]
        ELSE /\ ~panicked
             /\ ret = None
             /\ num_entries = 0 /\ head = pre.head /\ tail = pre.tail

RECURSIVE IterAll(_, _, _, _)
RECURSIVE IterAllStep(_, _, _, _)

\* What a fresh iterator yields until it returns None (or panics).
IterAll(d, pos, end, acc) == IterAllStep(d, end, acc, IterNextOf(d, pos, end))

IterAllStep(d, end, acc, r) ==
    IF r.panic THEN [panic |-> TRUE, items |-> acc]
    ELSE IF ~r.item.ok THEN [panic |-> FALSE, items |-> acc]
    ELSE IterAll(d, r.pos, end, Append(acc, r.item.val))

\* C9: after clear(), every call returns on the cleared list what it returns
\* on a list made by Listpack::new(), panics on one only if it panics on the
\* other, and len(), get(i) and iteration agree on the two lists.
C9_ClearLikeNew ==
    twin.on =>
        /\ panicked = twin.panicked
        /\ ~panicked =>
              /\ ret = twin.ret
              /\ num_entries = twin.n
              /\ \A i \in 0..MaxPost :
                    Get(i) = GetOf(overflow_checks, twin.data, twin.head,
                                   twin.tail, twin.n, i)
              /\ IterAll(data, head, tail, <<>>) =
                    IterAll(twin.data, twin.head, twin.tail, <<>>)

\* C10: a fresh iterator driven to its end has yielded exactly len() items,
\* the k-th being get(k); it never panics and never stops at a live entry.
C10_IterYieldsAll ==
    it_active =>
        /\ ~panicked
        /\ Len(it_items) <= num_entries
        /\ \A k \in 0..(Len(it_items) - 1) : Get(k) = Value(Some(it_items[k + 1]))
        /\ it_done => Len(it_items) = num_entries

\* C11: a fresh iterator driven with next_back() alone never panics, yields
\* get(len()-1), get(len()-2), ... in that order, slices every payload inside
\* data[head..tail), and has yielded exactly len() items when it returns
\* None (none at all on an empty list).
C11_NextBackReverses ==
    it_active =>
        /\ ~panicked
        /\ Len(it_items) <= num_entries
        /\ \A k \in 0..(Len(it_items) - 1) :
              Get(num_entries - 1 - k) = Value(Some(it_items[k + 1]))
        /\ (op.name = "next_back" /\ ret.ok) =>
              (head <= it_back.start /\ it_back.stop <= tail)
        /\ it_done => Len(it_items) = num_entries

\* C12: in every state the public operations reach, 0 <= head < tail <=
\* arena.length.
C12_HeadBeforeTail ==
    /\ 0 <= head
    /\ head < tail
    /\ tail <= Len(data)

\* C13: after every call that has returned, the byte data[tail-1] is the
\* terminator 0xFF.
C13_TerminatorAtTail ==
    /\ tail >= 1
    /\ tail <= Len(data)
    /\ At(data, tail - 1) = LP_EOF

RECURSIVE ParseEntries(_, _, _, _)
RECURSIVE ParseEntry(_, _, _, _, _)

\* The number of entries varint(len) ++ payload that fill d[pos..stop) back
\* to back, count of them being passed already; -1 when the bytes do not
\* parse so (a header cut short, an entry running past stop).
ParseEntries(d, pos, stop, count) ==
    IF pos = stop THEN count
    ELSE IF pos > stop THEN -1
    ELSE ParseEntry(d, pos, stop, count, DecodeLen(d, pos, stop))

ParseEntry(d, pos, stop, count, r) ==
    IF ~r.ok \/ r.cls # "small" THEN -1
    ELSE ParseEntries(d, pos + r.consumed + r.len, stop, count + 1)

\* C14: in every state the public operations reach, the bytes of
\* data[head..tail-1) are exactly num_entries entries back to back, and
\* num_entries = 0 exactly when tail = head + 1.
C14_EntriesBackToBack ==
    /\ 0 <= head
    /\ head <= tail - 1
    /\ tail <= Len(data)
    /\ ParseEntries(data, head, tail - 1, 0) = num_entries
    /\ (num_entries = 0) <=> (tail = head + 1)

RECURSIVE HeaderScan(_, _, _)
RECURSIVE HeaderStep(_, _, _, _)

\* A scan from pos that decodes the headers in turn, as the loops of get,
\* remove, pop_back and the iterator do, finds no byte 0xFF at a header
\* position before t - 1.
HeaderScan(d, pos, t) ==
    IF pos >= t - 1 THEN TRUE
    ELSE IF At(d, pos) = LP_EOF THEN FALSE
    ELSE HeaderStep(d, pos, t, DecodeLen(d, pos, Len(d)))

HeaderStep(d, pos, t, r) ==
    IF ~r.ok \/ r.cls # "small" THEN TRUE
    ELSE HeaderScan(d, pos + r.consumed + r.len, t)

\* C15: in every state the public operations reach, a scan from head meets
\* the byte 0xFF at a header position only at tail - 1: no live entry's
\* header starts with 0xFF.
C15_EofOnlyAtTail ==
    /\ 0 <= head
    /\ tail <= Len(data)
    /\ HeaderScan(data, head, tail)

\* C16: after push_integer(v) on a list built with push_integer, the call
\* has not panicked and decode_integer(get(len()-1)) = Some(v), for v at and
\* next to the ends of every width class.
C16_IntegerRoundTrip ==
    op.name = "push_integer" =>
        /\ ~panicked
        /\ num_entries >= 1
        /\ Get(num_entries - 1).ok
        /\ DecodeInteger(Get(num_entries - 1).val) = Some(op.val)

\* -2^23, a negative 24-bit value, was pushed after another integer.
C16_Witness ==
    /\ op.name = "push_integer"
    /\ op.val = Widen(MinPat(3), 255)
    /\ num_entries = 2
    /\ DecodeInteger(Get(1).val) = Some(op.val)

\* The number an i64 within the 32-bit range stands for.
Num32(v) ==
    v[1] + 256 * v[2] + 65536 * v[3]
    + 16777216 * (IF v[4] >= 128 THEN v[4] - 256 ELSE v[4])

\* The tag the ranges select: the smallest width whose range holds v.
RangeTag(v) ==
    IF \E k \in 5..8 : v[k] # (IF v[4] >= 128 THEN 255 ELSE 0) THEN 5
    ELSE IF -128 <= Num32(v) /\ Num32(v) <= 127 THEN 1
    ELSE IF -32768 <= Num32(v) /\ Num32(v) <= 32767 THEN 2
    ELSE IF -8388608 <= Num32(v) /\ Num32(v) <= 8388607 THEN 3
    ELSE 4

\* tag ++ the low-order little-endian bytes of v, as many as the tag's width.
TagBytes(v) ==
    <<RangeTag(v)>> \o SubSeq(v, 1, IF RangeTag(v) = 5 THEN 8 ELSE RangeTag(v))

\* The step left the list as the push_back outcome out describes.
SameEffect(out) ==
    /\ panicked' = out.panic
    /\ ~out.panic =>
          /\ data' = out.data
          /\ head' = out.head
          /\ tail' = out.tail
          /\ num_entries' = out.n
          /\ ret' = out.ret

\* C17: every push_integer(v) step leaves the list as push_back(tag ++ bytes)
\* would from the same state, the tag being the smallest width whose range
\* holds v and the bytes the low-order little-endian bytes of v.
C17_PushIntegerIsPushBack ==
    [][SameEffect(PushBackOut(overflow_checks, data, head, tail, num_entries,
                              TagBytes(op'.val)))]_vars

\* 2^31, the value next above the 32-bit range, was stored with tag 0x05
\* after an integer of another width.
C17_Witness ==
    /\ op.name = "push_integer"
    /\ op.val = Widen(MinPat(4), 0)
    /\ ~panicked
    /\ num_entries = 2
    /\ Get(1) = Value(Some(<<5>> \o op.val))
    /\ Len(Get(0).val) < 9

\* C18: for every usize v, decode_varint(encode_varint(v)) is
\* Some((v, length of encode_varint(v))), up to usize::MAX.
C18_VarintRoundTrip ==
    op.name = "encode_varint" =>
        /\ ret.ok
        /\ DecodeVarintOf(ret.val) = Some(<<op.val, Len(ret.val)>>)

\* usize::MAX was encoded, in ten bytes, and decodes to itself.
C18_Witness ==
    /\ op.name = "encode_varint"
    /\ op.val = [i \in 1..WordGroups |-> IF i = WordGroups THEN 1 ELSE 127]
    /\ Len(ret.val) = WordGroups
    /\ DecodeVarintOf(ret.val) = Some(<<op.val, WordGroups>>)

RECURSIVE ContPrefix(_)
\* The bytes of b before its first byte with a clear continuation bit.
ContPrefix(b) ==
    IF b = <<>> \/ Head(b) < VARINT_CONT_MASK THEN 0 ELSE 1 + ContPrefix(Tail(b))

\* C19: decode_varint returns None when the input ends before a byte with a
\* clear continuation bit (the empty input too) and when the continuation
\* bytes at its head would shift past the 64-bit word; it reads no byte
\* beyond the ten that the word allows, so the result is that of the first
\* ten bytes and a success has read at most ten.
C19_VarintRejects ==
    op.name = "decode_varint" =>
        /\ ContPrefix(op.val) = Len(op.val) => ~ret.ok
        /\ 7 * ContPrefix(op.val) > UsizeBits => ~ret.ok
        /\ ret.ok => ret.val[2] <= WordGroups
        /\ ret = DecodeVarintOf(SubSeq(op.val, 1, Min(Len(op.val), WordGroups)))

\* Ten continuation bytes before a byte that would end the varint: None.
C19_Witness ==
    /\ op.name = "decode_varint"
    /\ Len(op.val) = WordGroups + 1
    /\ ContPrefix(op.val) = WordGroups
    /\ ~ret.ok

\* The bytes the tag announces after it: 1, 2, 3, 4 or 8.
TagWidth(tag) == IF tag = 5 THEN 8 ELSE tag

\* C20: decode_integer returns None when the payload is empty, when its first
\* byte is not a tag 0x01..0x05, and when fewer bytes follow the tag than
\* the tag's width; it returns Some only when the full width is present.
C20_IntegerRejects ==
    op.name = "decode_integer" =>
        /\ op.val = <<>> => ~ret.ok
        /\ (op.val # <<>> /\ op.val[1] \notin 1..5) => ~ret.ok
        /\ (op.val # <<>> /\ op.val[1] \in 1..5
              /\ Len(op.val) - 1 < TagWidth(op.val[1])) => ~ret.ok
        /\ ret.ok => /\ op.val # <<>>
                     /\ op.val[1] \in 1..5
                     /\ Len(op.val) - 1 >= TagWidth(op.val[1])

\* A 64-bit tag before seven bytes, one short of its width: None.
C20_Witness ==
    /\ op.name = "decode_integer"
    /\ Len(op.val) = 8
    /\ op.val[1] = 5
    /\ ~ret.ok

\* C21: size_hint() returns (r, Some(r)) where r is the number of items the
\* further next() calls yield; on a fresh iterator r is len().
C21_SizeHintExact ==
    (it_active /\ op.name = "size_hint") =>
        /\ ~panicked
        /\ ~IterAll(data, it_pos, it_end, <<>>).panic
        /\ ret = Some(<<Usize(Len(IterAll(data, it_pos, it_end, <<>>).items)),
                        Some(Usize(Len(IterAll(data, it_pos, it_end, <<>>).items)))>>)
        /\ it_items = <<>> /\ ~it_done =>
              ret = Some(<<Usize(num_entries), Some(Usize(num_entries))>>)

\* C22: in every state no call has panicked and, for every index i, get(i)
\* returns Some exactly when i < len() and None exactly when i >= len().
C22_GetPresentBelowLen ==
    /\ ~panicked
    /\ \A i \in 0..MaxOps :
          /\ ~Get(i).panic
          /\ Get(i).ok <=> i < num_entries

\* The last call was a push that returned.
Pushed == op.name \in {"push_front", "push_back"} /\ ~panicked

\* C23: a push whose entry takes extra bytes, made with head >= extra and
\* arena.length - tail >= extra, does not reallocate: arena.length is as
\* before and the end the push does not write to keeps its offset.
C23_NoGrowWithSlack ==
    (/\ Pushed
     /\ pre.head >= EntrySize(op.val)
     /\ pre.cap - pre.tail >= EntrySize(op.val)) =>
        /\ Len(data) = pre.cap
        /\ op.name = "push_back" => head = pre.head
        /\ op.name = "push_front" => tail = pre.tail

\* C24: a push that reallocates leaves arena.length at
\* max(S * g, 2 * (S + extra + 1)), S being the size tail - head of the live
\* region before the push in both terms, g being 3 while len() <= 1000 and 2
\* above.
C24_NewCapacity ==
    (Pushed /\ Len(data) # pre.cap) =>
        Len(data) = Max((pre.tail - pre.head)
                            * (IF pre.n > GrowthThreshold THEN 2 ELSE 3),
                        2 * ((pre.tail - pre.head) + EntrySize(op.val) + 1))

\* The step is a push that returned and reallocated the arena.
Reallocated ==
    /\ op'.name \in {"push_front", "push_back"}
    /\ steps' = steps + 1
    /\ ~panicked'
    /\ Len(data') # Len(data)

\* The live region of used bytes lies at nh in the new arena, as it was: all
\* of it before a push_front, all but the terminator, which push_back
\* overwrites, before a push_back.
CopiedTo(nh, used, extra) ==
    /\ nh = (Len(data') - used) \div 2
    /\ (Len(data') - (nh + used)) - nh \in {0, 1}
    /\ op'.name = "push_front" =>
          /\ head' = nh - extra
          /\ tail' = nh + used
          /\ Slice(data', nh, nh + used) = Slice(data, head, tail)
    /\ op'.name = "push_back" =>
          /\ head' = nh
          /\ tail' = nh + used + extra
          /\ Slice(data', nh, nh + used - 1) = Slice(data, head, tail - 1)

\* After a push that reallocated, get returns the entries held before as
\* before, one index up after a push_front.
SameEntries ==
    (Pushed /\ Len(data) # pre.cap) =>
        /\ num_entries = pre.n + 1
        /\ \A k \in 0..(pre.n - 1) :
              Get(IF op.name = "push_front" THEN k + 1 ELSE k) = pre.gets[k]

\* C25: a push that reallocates copies the live region [head, tail) byte for
\* byte to new head = floor((new capacity - used) / 2), used = tail - head,
\* with new tail = new head + used; the slack after it and the slack before
\* it differ by at most 1, and the entries read as before.
C25_CopiedToCenter ==
    /\ []SameEntries
    /\ [][Reallocated =>
            /\ head < tail
            /\ CopiedTo((Len(data') - (tail - head)) \div 2, tail - head,
                        EntrySize(op'.val))]_vars

\* A push_back reallocated an arena that held two entries, which get(0) and
\* get(1) return as before.
C25_Witness ==
    /\ op.name = "push_back"
    /\ ~panicked
    /\ Len(data) # pre.cap
    /\ pre.n = 2
    /\ num_entries = 3
    /\ pre.gets[0].ok /\ Get(0) = pre.gets[0]
    /\ pre.gets[1].ok /\ Get(1) = pre.gets[1]

\* C26: clear() returns without a panic and leaves head at
\* floor(arena.length / 2), tail at head + 1, 0xFF at arena[head], the entry
\* count at 0 and arena.length as it was.
C26_ClearRecenters ==
    op.name = "clear" =>
        /\ ~panicked
        /\ head = Len(data) \div 2
        /\ tail = head + 1
        /\ At(data, head) = LP_EOF
        /\ num_entries = 0
        /\ Len(data) = pre.cap

\* clear() ran on a list that held entries in a reallocated arena.
C26_Witness ==
    /\ op.name = "clear"
    /\ ~panicked
    /\ pre.n >= 2
    /\ pre.cap > InitCap
    /\ head = pre.cap \div 2
    /\ num_entries = 0

\* What grow_and_center has left (g) has room for the entry of v at both
\* ends, and neither push panics on it: no offset written lies outside the
\* arena and head - extra does not go below zero.
RoomFor(g, v) ==
    ~g.panic =>
        /\ g.head >= EntrySize(v)
        /\ Len(g.data) - g.tail >= EntrySize(v)
        /\ ~PushFrontAt(g, LenBytes(Len(v)), v).panic
        /\ ~PushBackAt(g, LenBytes(Len(v)), v).panic

\* C27: in every state and for every value, once the capacity check of a
\* push has returned, head >= extra and arena.length - tail >= extra, so
\* push_front's head - extra does not underflow and neither push writes
\* outside the arena.
C27_RoomAfterCheck ==
    ~panicked =>
        \A v \in Values :
            RoomFor(GrowAndCenter(overflow_checks, data, head, tail, num_entries,
                                  EntrySize(v)), v)

\* A push_front that had to reallocate an arena holding entries returned,
\* and the next push of every value has to reallocate again or has room.
C27_Witness ==
    /\ op.name = "push_front"
    /\ ~panicked
    /\ pre.n >= 1
    /\ Len(data) # pre.cap
    /\ head >= 0
    /\ \E v \in Values :
          Len(GrowAndCenter(overflow_checks, data, head, tail, num_entries,
                            EntrySize(v)).data) # Len(data)

\* The exact value of the first n bytes of b: the 7-bit group of each byte,
\* least significant first, none cut to the word.
ExactGroups(b, n) == Trim([i \in 1..n |-> b[i] % VARINT_CONT_THRESHOLD])

\* C28: when decode_varint(bytes) returns Some((v, n)), v is the exact value
\* of the n bytes read, the sum of (bytes[i] & 0x7F) * 2^(7 i); no bit of an
\* accepted input is dropped.
C28_VarintExact ==
    (op.name = "decode_varint" /\ ret.ok) =>
        ret.val[1] = ExactGroups(op.val, ret.val[2])

====
